---------------------------- MODULE Spec2Model ----------------------------
(***************************************************************************)
(* tf-ebs-attach (src/main.go): one invocation of the command line tool.   *)
(*                                                                         *)
(* Representation.                                                         *)
(*  - Resource names, resource keys, attribute keys and messages are TLA+  *)
(*    strings; "+" and Sprintf("%s") on them is \o.                         *)
(*  - The strings that are hashed (identifiers, device names) are          *)
(*    sequences of byte codes, so that the hash and the %d formatting are  *)
(*    computed and not assumed.                                            *)
(*  - A Go pointer or a Go map that may be nil is <<>> (nil) or <<v>>.     *)
(*  - A 32-bit word is the sequence of its 32 bits, the least significant  *)
(*    one first.                                                           *)
(***************************************************************************)
EXTENDS Integers, Sequences, FiniteSets, TLC

(***************************************************************************)
(* Bounds of the model.                                                    *)
(***************************************************************************)
MaxModules == 2
\* the runs of import made in sequence on the same files
MaxRuns == 2

(***************************************************************************)
(* Go values                                                               *)
(***************************************************************************)
Nil == <<>>
Ptr(v) == <<v>>
IsNil(p) == p = <<>>
Deref(p) == p[1]
EmptyMap == <<>>

(***************************************************************************)
(* hashcode.String: crc32.ChecksumIEEE of the bytes, converted to int      *)
(* (main.go:269 calls it; the function is the vendored terraform helper).  *)
(***************************************************************************)
WordBits == 32
IntBits == 64
Bits == 1..WordBits

\* A function over 1..n as an explicit tuple.
Tuple(f) == f \o <<>>

\* The reflected IEEE polynomial 0xEDB88320, as the set of its one bits
\* (bit 0 is the least significant one).
IEEEPolyBits == {5, 8, 9, 15, 19, 20, 21, 23, 24, 26, 27, 29, 30, 31}
IEEEPoly == Tuple([i \in Bits |-> IF (i - 1) \in IEEEPolyBits THEN 1 ELSE 0])
AllOnes == Tuple([i \in Bits |-> 1])
Zero == Tuple([i \in Bits |-> 0])

XorW(a, b) == Tuple([i \in Bits |-> (a[i] + b[i]) % 2])
ShiftRight1(a) == Tail(a) \o <<0>>

RECURSIVE ByteBits(_, _)
\* the n low bits of b, least significant first
ByteBits(b, n) == IF n = 0 THEN <<>> ELSE <<b % 2>> \o ByteBits(b \div 2, n - 1)
ByteWord(b) == ByteBits(b, 8) \o SubSeq(Zero, 9, WordBits)

RECURSIVE CrcShift(_, _)
\* n rounds of: crc = (crc >> 1) ^ (poly if the low bit was set)
CrcShift(crc, n) ==
    IF n = 0 THEN crc
    ELSE CrcShift(IF crc[1] = 1 THEN XorW(ShiftRight1(crc), IEEEPoly)
                                ELSE ShiftRight1(crc), n - 1)

RECURSIVE CrcUpdate(_, _)
\* crc32.update: one step per byte, on a crc of WordBits bits
CrcUpdate(crc, bytes) ==
    IF bytes = <<>> \/ Len(crc) # WordBits THEN crc
    ELSE CrcUpdate(CrcShift(XorW(crc, ByteWord(Head(bytes))), 8), Tail(bytes))

ChecksumIEEE(bytes) == XorW(CrcUpdate(AllOnes, bytes), AllOnes)

\* hashcode.String: v := int(crc); v >= 0 returns v; -v >= 0 returns -v;
\* otherwise 0.  The result is never negative, so it is a word.
\* With a 64-bit int the conversion of a uint32 is never negative; with a
\* 32-bit int the top bit is the sign, and -v is the two's complement.
RECURSIVE Incr(_, _)
Incr(w, i) == IF i > WordBits THEN w
              ELSE IF w[i] = 0 THEN [w EXCEPT ![i] = 1]
              ELSE Incr([w EXCEPT ![i] = 0], i + 1)
Negate(w) == Incr(Tuple([i \in Bits |-> 1 - w[i]]), 1)
hashcode_String(bytes) ==
    LET crc == ChecksumIEEE(bytes)
        negative == IntBits = WordBits /\ crc[WordBits] = 1
    IN  IF ~negative THEN crc
        ELSE IF Negate(crc)[WordBits] = 0 THEN Negate(crc)
        ELSE Zero

(***************************************************************************)
(* fmt.Sprintf("%d"): the decimal digits of a non-negative word, most      *)
(* significant first, as byte codes.                                       *)
(***************************************************************************)
Char0 == 48
RECURSIVE DoubleAdd(_, _)
\* digits (least significant first) * 2 + carry
DoubleAdd(ds, carry) ==
    IF ds = <<>> THEN (IF carry = 0 THEN <<>> ELSE <<carry>>)
    ELSE LET t == 2 * Head(ds) + carry
         IN  <<t % 10>> \o DoubleAdd(Tail(ds), t \div 10)
RECURSIVE DigitsLSF(_, _)
\* the digits of the number made of the bits of w from index i up, least
\* significant first
DigitsLSF(w, i) ==
    IF i > WordBits THEN <<>>
    ELSE DoubleAdd(DigitsLSF(w, i + 1), w[i])
RECURSIVE Reverse(_)
Reverse(s) == IF s = <<>> THEN <<>> ELSE Reverse(Tail(s)) \o <<Head(s)>>
FormatDecimal(w) ==
    IF w = Zero THEN <<Char0>>
    ELSE LET ds == Reverse(DigitsLSF(w, 1))
         IN  Tuple([i \in 1..Len(ds) |-> Char0 + ds[i]])

(***************************************************************************)
(* Record Synthesizer (main.go:239-270)                                    *)
(***************************************************************************)
Hyphen == <<45>>                      \* "-"
VaiPrefix == <<118, 97, 105, 45>>     \* "vai-"

\* Sprintf("%s-", s)
SprintfDash(s) == s \o Hyphen

volumeAttachmentID_swapped(name, volumeID, instanceID) ==
    VaiPrefix \o FormatDecimal(hashcode_String(
        SprintfDash(name) \o SprintfDash(volumeID) \o SprintfDash(instanceID)))

volumeAttachmentID(name, volumeID, instanceID) ==
    LET buf == SprintfDash(name) \o SprintfDash(instanceID) \o SprintfDash(volumeID)
    IN  VaiPrefix \o FormatDecimal(hashcode_String(buf))

newAwsVolumeAttachmentState_crossed(instanceID, volumeName, volumeID, deviceName) ==
    Ptr([Type |-> "aws_volume_attachment",
         Dependencies |-> <<"aws_ebs_volume." \o volumeName>>,
         Primary |-> Ptr([ID |-> volumeAttachmentID(deviceName, volumeID, instanceID),
                          Attributes |-> [id |-> volumeAttachmentID(deviceName, volumeID, instanceID),
                                          device_name |-> deviceName,
                                          instance_id |-> volumeID,
                                          volume_id |-> instanceID],
                          Meta |-> EmptyMap,
                          Tainted |-> FALSE]),
         Deposed |-> <<>>])

newAwsVolumeAttachmentState(instanceID, volumeName, volumeID, deviceName) ==
    Ptr([Type |-> "aws_volume_attachment",
         Dependencies |-> <<"aws_ebs_volume." \o volumeName>>,
         Primary |-> Ptr([ID |-> volumeAttachmentID(deviceName, volumeID, instanceID),
                          Attributes |-> [id |-> volumeAttachmentID(deviceName, volumeID, instanceID),
                                          device_name |-> deviceName,
                                          instance_id |-> instanceID,
                                          volume_id |-> volumeID],
                          Meta |-> EmptyMap,
                          Tainted |-> FALSE]),
         Deposed |-> <<>>])

(***************************************************************************)
(* JSON text, as its structure.  A field of an object is absent, null, or  *)
(* a value.  encoding/json decodes an absent or null pointer, slice or map *)
(* to nil, and encodes nil as null.                                        *)
(***************************************************************************)
JAbsent == [t |-> "absent"]
JNull == [t |-> "null"]
JArray(s) == [t |-> "array", v |-> s]
JMap(f) == [t |-> "object", v |-> f]
JIsNil(j) == j.t \in {"absent", "null"}

UnmarshalInstanceState(j) ==
    IF JIsNil(j) THEN Nil
    ELSE Ptr([ID |-> j.id, Attributes |-> j.attributes.v,
              Meta |-> j.meta.v, Tainted |-> j.tainted])
UnmarshalResourceState(j) ==
    IF JIsNil(j) THEN Nil
    ELSE Ptr([Type |-> j.type, Dependencies |-> j.depends_on.v,
              Primary |-> UnmarshalInstanceState(j.primary),
              Deposed |-> j.deposed.v])
UnmarshalResources(j) ==
    IF JIsNil(j) THEN Nil
    ELSE Ptr([kj \in DOMAIN j.v |-> UnmarshalResourceState(j.v[kj])])
UnmarshalModuleState(j) ==
    IF JIsNil(j) THEN Nil
    ELSE Ptr([Path |-> j.path.v, Resources |-> UnmarshalResources(j.resources)])
UnmarshalModules(j) ==
    IF JIsNil(j) THEN Nil
    ELSE Ptr([ij \in 1..Len(j.v) |-> UnmarshalModuleState(j.v[ij])])
\* json.Unmarshal(inputData, &tfstate): [err, v]
Unmarshal(data) ==
    IF ~data.valid
    THEN [err |-> "invalid character 'x' looking for beginning of value"]
    ELSE [err |-> "", v |-> [Modules |-> UnmarshalModules(data.json.modules)]]

MarshalInstanceState(p) ==
    IF IsNil(p) THEN JNull
    ELSE [t |-> "object", id |-> Deref(p).ID, attributes |-> JMap(Deref(p).Attributes),
          meta |-> JMap(Deref(p).Meta), tainted |-> Deref(p).Tainted]
MarshalResourceState(p) ==
    IF IsNil(p) THEN JNull
    ELSE [t |-> "object", type |-> Deref(p).Type,
          depends_on |-> JArray(Deref(p).Dependencies),
          primary |-> MarshalInstanceState(Deref(p).Primary),
          deposed |-> JArray(Deref(p).Deposed)]
MarshalResources(p) ==
    IF IsNil(p) THEN JNull
    ELSE JMap([kg \in DOMAIN Deref(p) |-> MarshalResourceState(Deref(p)[kg])])
MarshalModuleState(p) ==
    IF IsNil(p) THEN JNull
    ELSE [t |-> "object", path |-> JArray(Deref(p).Path),
          resources |-> MarshalResources(Deref(p).Resources)]
MarshalModules(p) ==
    IF IsNil(p) THEN JNull
    ELSE JArray([ig \in 1..Len(Deref(p)) |-> MarshalModuleState(Deref(p)[ig])])
\* json.MarshalIndent(tfstate, "", "    "): the bytes, with no trailing newline
MarshalIndent(state) ==
    [valid |-> TRUE, json |-> [t |-> "object", modules |-> MarshalModules(state.Modules)],
     trailer |-> ""]
\* append(outputData, '\n')
AppendNewline(data) == [data EXCEPT !.trailer = data.trailer \o "\n"]

(***************************************************************************)
(* State Locator and injection (main.go:212-237)                           *)
(***************************************************************************)
\* v, found := m[k] on a map that may be nil
MapHas(m, k) == ~IsNil(m) /\ k \in DOMAIN Deref(m)
\* p.Primary.ID dereferences p and p.Primary
HasPrimaryID(p) == ~IsNil(p) /\ ~IsNil(Deref(p).Primary)
PrimaryID(p) == Deref(Deref(p).Primary).ID

RECURSIVE ScanModules(_, _, _, _)
\* the range loop of injectVolumeAttachment from module i on:
\*   [outcome |-> "found", index]                          the return at line 232
\*   [outcome |-> "notfound"]                              the loop ran out
\*   [outcome |-> "panic", index]                          a nil dereference
ScanModules(mods, i, instanceResourceID, volumeResourceID) ==
    IF i > Len(mods) THEN [outcome |-> "notfound", index |-> 0]
    ELSE IF IsNil(mods[i]) THEN [outcome |-> "panic", index |-> i]
    ELSE LET resources == Deref(mods[i]).Resources
         IN  IF ~MapHas(resources, instanceResourceID)
             THEN ScanModules(mods, i + 1, instanceResourceID, volumeResourceID)
             ELSE IF MapHas(resources, volumeResourceID)
             THEN LET instanceState == Deref(resources)[instanceResourceID]
                      volumeState == Deref(resources)[volumeResourceID]
                  IN  IF HasPrimaryID(instanceState) /\ HasPrimaryID(volumeState)
                      THEN [outcome |-> "found", index |-> i]
                      ELSE [outcome |-> "panic", index |-> i]
             ELSE ScanModules(mods, i + 1, instanceResourceID, volumeResourceID)

\* the arguments of the call at line 231, in the order of the call
LocatedArguments_crossed(instanceState, volumeName, volumeState, deviceName) ==
    <<PrimaryID(volumeState), volumeName, PrimaryID(instanceState), deviceName>>
LocatedArguments(instanceState, volumeName, volumeState, deviceName) ==
    <<PrimaryID(instanceState), volumeName, PrimaryID(volumeState), deviceName>>

\* m[k] = v on a non-nil map
MapPut_fresh(m, k, v) ==
    LET f == IF k \in DOMAIN Deref(m) THEN k \o ".1" ELSE k
    IN  Ptr([x \in (DOMAIN Deref(m)) \cup {f} |-> IF x = f THEN v ELSE Deref(m)[x]])
MapPut_only(m, k, v) == Ptr([x \in {k} |-> v])
MapPut(m, k, v) == Ptr([x \in (DOMAIN Deref(m)) \cup {k} |-> IF x = k THEN v ELSE Deref(m)[x]])

\* moduleState.Resources[key] = rec (line 230), moduleState being module i
StoreRecord_first(mods, i, key, rec) ==
    LET j == IF IsNil(mods[1]) \/ IsNil(Deref(mods[1]).Resources) THEN i ELSE 1
    IN  [mods EXCEPT ![j] = Ptr([Deref(mods[j]) EXCEPT !.Resources = MapPut(@, key, rec)])]
StoreRecord(mods, i, key, rec) ==
    [mods EXCEPT ![i] = Ptr([Deref(mods[i]) EXCEPT !.Resources = MapPut(@, key, rec)])]

NotFoundMessage(instanceResourceID, volumeResourceID) ==
    "Could not locate module in tfstate containing (\"" \o instanceResourceID
        \o "\", \"" \o volumeResourceID \o "\")"

\* injectVolumeAttachment(opts, &tfstate):
\*   [outcome |-> "return", index, tfstate]  the state with the record inserted
\*   [outcome |-> "die", message]            die(...) at line 235
\*   [outcome |-> "panic", index]
injectVolumeAttachment_nodie(opts, state) ==
    LET instanceResourceID == "aws_instance." \o opts.inst_name
        volumeResourceID == "aws_ebs_volume." \o opts.vol_name
        mods == IF IsNil(state.Modules) THEN <<>> ELSE Deref(state.Modules)
        r == ScanModules(mods, 1, instanceResourceID, volumeResourceID)
    IN  CASE r.outcome = "found" ->
               LET resources == Deref(Deref(mods[r.index]).Resources)
                   args == LocatedArguments(resources[instanceResourceID], opts.vol_name,
                                            resources[volumeResourceID], opts.dev)
                   rec == newAwsVolumeAttachmentState(args[1], args[2], args[3], args[4])
               IN  [outcome |-> "return", index |-> r.index,
                    tfstate |-> [state EXCEPT !.Modules =
                                   Ptr(StoreRecord(mods, r.index,
                                         "aws_volume_attachment." \o opts.att_name, rec))]]
          [] r.outcome = "notfound" ->
               [outcome |-> "return", index |-> 0, tfstate |-> state]
          [] OTHER -> [outcome |-> "panic", index |-> r.index]

injectVolumeAttachment(opts, state) ==
    LET instanceResourceID == "aws_instance." \o opts.inst_name
        volumeResourceID == "aws_ebs_volume." \o opts.vol_name
        mods == IF IsNil(state.Modules) THEN <<>> ELSE Deref(state.Modules)
        r == ScanModules(mods, 1, instanceResourceID, volumeResourceID)
    IN  CASE r.outcome = "found" ->
               LET resources == Deref(Deref(mods[r.index]).Resources)
                   args == LocatedArguments(resources[instanceResourceID], opts.vol_name,
                                            resources[volumeResourceID], opts.dev)
                   rec == newAwsVolumeAttachmentState(args[1], args[2], args[3], args[4])
               IN  [outcome |-> "return", index |-> r.index,
                    tfstate |-> [state EXCEPT !.Modules =
                                   Ptr(StoreRecord(mods, r.index,
                                         "aws_volume_attachment." \o opts.att_name, rec))]]
          [] r.outcome = "notfound" ->
               [outcome |-> "die", index |-> 0,
                message |-> NotFoundMessage(instanceResourceID, volumeResourceID)]
          [] OTHER -> [outcome |-> "panic", index |-> r.index]

(***************************************************************************)
(* Files (ioutil.ReadFile, ioutil.WriteFile) and the option defaults       *)
(***************************************************************************)
DefaultStateFile == "terraform.tfstate"
\* readTfState lines 170-176
InputFileName(i) == IF i = "-" THEN "/dev/stdin" ELSE IF i = "" THEN DefaultStateFile ELSE i
\* writeTfState lines 193-199
OutputFileName(o) == IF o = "-" THEN "/dev/stdout" ELSE IF o = "" THEN DefaultStateFile ELSE o

\* ioutil.ReadFile: [err, data]
ReadFile(files, name) ==
    IF IsNil(files[name])
    THEN [err |-> "open " \o name \o ": no such file or directory"]
    ELSE [err |-> "", data |-> Deref(files[name])]

\* What a truncated write leaves in the file.
Truncated(data) == [valid |-> FALSE, prefix_of |-> data]
\* ioutil.WriteFile(name, data, 0644) opens with O_WRONLY|O_CREATE|O_TRUNC and
\* writes; how the operating system answers is `how`: [err, files]
WriteOutcomes == {"ok", "open fails", "short write"}
WriteFile(files, name, data, how) ==
    CASE how = "ok" -> [err |-> "", files |-> [files EXCEPT ![name] = Ptr(data)]]
      [] how = "open fails" ->
           [err |-> "open " \o name \o ": permission denied", files |-> files]
      [] OTHER ->
           [err |-> "write " \o name \o ": no space left on device",
            files |-> [files EXCEPT ![name] = Ptr(Truncated(data))]]

\* die(message, err): the line printed on standard output; the exit status is 1
die(message, err) == [fd |-> 1, text |-> message \o err \o "\n"]
DieStatus_zero == 1 - 1
DieStatus == 1
\* A Go panic: the runtime reports on standard error and exits with status 2
PanicStatus == 2
NilDereference ==
    [fd |-> 2,
     text |-> "panic: runtime error: invalid memory address or nil pointer dereference\n"]

(***************************************************************************)
(* gojsondiff.New().Compare(inputBytes, outputBytes): the structural       *)
(* difference of two JSON documents, as the set of the places that differ. *)
(***************************************************************************)
DiffResources(i, a, b) ==
    IF a.t = "object" /\ b.t = "object"
    THEN {<<i, k, "added">> : k \in (DOMAIN b.v) \ (DOMAIN a.v)}
         \cup {<<i, k, "removed">> : k \in (DOMAIN a.v) \ (DOMAIN b.v)}
         \cup {<<i, k, "changed">> : k \in {x \in (DOMAIN a.v) \cap (DOMAIN b.v) : a.v[x] # b.v[x]}}
    ELSE IF a = b THEN {} ELSE {<<i, "resources", "changed">>}
DiffModule(i, a, b) ==
    IF a.t = "object" /\ b.t = "object"
    THEN (IF a.path = b.path THEN {} ELSE {<<i, "path", "changed">>})
         \cup DiffResources(i, a.resources, b.resources)
    ELSE IF a = b THEN {} ELSE {<<i, "module", "changed">>}
DiffModules(a, b) ==
    IF a.t = "array" /\ b.t = "array"
    THEN UNION {DiffModule(i, a.v[i], b.v[i]) : i \in (DOMAIN a.v) \cap (DOMAIN b.v)}
         \cup {<<i, "module", "added">> : i \in (DOMAIN b.v) \ (DOMAIN a.v)}
         \cup {<<i, "module", "removed">> : i \in (DOMAIN a.v) \ (DOMAIN b.v)}
    ELSE IF a = b THEN {} ELSE {<<0, "modules", IF a.t = "absent" THEN "added" ELSE "changed">>}
Compare(left, right) == DiffModules(left.json.modules, right.json.modules)

(***************************************************************************)
(* The inputs: the command line and the files on disk                      *)
(***************************************************************************)
InstNames == {"a"}
VolNames == {"v"}
AttNames == {"t"}
\* "/dev/sdg", "/dev/sdh"
DevSdg == <<47, 100, 101, 118, 47, 115, 100, 103>>
DevSdh == <<47, 100, 101, 118, 47, 115, 100, 104>>
\* "i-<n>" and "vol-<n>", the identifiers in module n of the input
InstID(n) == <<105, 45, Char0 + n>>
VolID(n) == <<118, 111, 108, 45, Char0 + n>>
\* "vai-0", the identifier of an attachment already in the input
OldAttachmentID == VaiPrefix \o <<Char0>>

JInstanceState(id) ==
    [t |-> "object", id |-> id, attributes |-> JMap([id |-> id]),
     meta |-> JMap(EmptyMap), tainted |-> FALSE]
\* "/dev/sdf"
DevSdf == <<47, 100, 101, 118, 47, 115, 100, 102>>
JOldAttachment(volumeKey) ==
    [t |-> "object", type |-> "aws_volume_attachment", depends_on |-> JArray(<<volumeKey>>),
     primary |-> [t |-> "object", id |-> OldAttachmentID,
                  attributes |-> JMap([id |-> OldAttachmentID, device_name |-> DevSdf,
                                       instance_id |-> InstID(0), volume_id |-> VolID(0)]),
                  meta |-> JMap(EmptyMap), tainted |-> FALSE],
     deposed |-> JArray(<<>>)]
JResourceState(type, deps, primary) ==
    [t |-> "object", type |-> type, depends_on |-> JArray(deps),
     primary |-> primary, deposed |-> JArray(<<>>)]

InstVariants == {"absent", "ok", "no primary"}
VolVariants == {"absent", "ok", "null"}
AttVariants == {"absent", "present"}
\* What a module of the input holds: null, an object without "resources", or
\* an object whose resources hold the instance, the volume and an attachment
\* in one of their variants.
ModuleShapes ==
    {[kind |-> k, inst |-> "absent", vol |-> "absent", att |-> "absent"] :
        k \in {"null", "no resources"}}
    \cup {sh \in [kind : {"resources"}, inst : InstVariants, vol : VolVariants,
                   att : AttVariants] :
             \* a record is damaged, or an attachment is there already, only
             \* where it decides something: beside the other records
             /\ sh.inst = "no primary" => sh.vol = "ok"
             /\ sh.vol = "null" => sh.inst = "ok"
             /\ sh.att = "present" => (sh.inst = "ok" /\ sh.vol = "ok")}

JModule(n, shape, instName, volName, attName) ==
    IF shape.kind = "null" THEN JNull
    ELSE IF shape.kind = "no resources"
    THEN [t |-> "object", path |-> JArray(<<"root", "m">>), resources |-> JAbsent]
    ELSE LET ik == "aws_instance." \o instName
             vk == "aws_ebs_volume." \o volName
             ak == "aws_volume_attachment." \o attName
             keys == (IF shape.inst = "absent" THEN {} ELSE {ik})
                     \cup (IF shape.vol = "absent" THEN {} ELSE {vk})
                     \cup (IF shape.att = "absent" THEN {} ELSE {ak})
             value(k) ==
                 IF k = ik
                 THEN JResourceState("aws_instance", <<>>,
                        IF shape.inst = "ok" THEN JInstanceState(InstID(n)) ELSE JAbsent)
                 ELSE IF k = vk
                 THEN (IF shape.vol = "ok"
                       THEN JResourceState("aws_ebs_volume", <<>>, JInstanceState(VolID(n)))
                       ELSE JNull)
                 ELSE JOldAttachment(vk)
         IN  [t |-> "object", path |-> JArray(<<"root", "m">>),
              resources |-> JMap([k \in keys |-> value(k)])]

\* The documents of up to MaxModules modules, and one with no "modules" at all.
Documents(instName, volName, attName) ==
    {[t |-> "object", modules |-> JAbsent]}
    \cup UNION {{[t |-> "object",
                  modules |-> JArray([n \in 1..len |->
                                 JModule(n, shapes[n], instName, volName, attName)])] :
                    shapes \in [1..len -> ModuleShapes]} : len \in 0..MaxModules}

Garbage == [valid |-> FALSE, prefix_of |-> <<>>]
\* What the input file may hold: nothing (no such file), bytes that are not
\* JSON, or a document followed by a newline.
InputFiles(instName, volName, attName) ==
    {Nil, Ptr(Garbage)}
    \cup {Ptr([valid |-> TRUE, json |-> d, trailer |-> "\n"]) :
            d \in Documents(instName, volName, attName)}
\* What the other file holds when the process starts.
PreviousOutput == Ptr([valid |-> TRUE, json |-> [t |-> "object", modules |-> JArray(<<>>)],
                       trailer |-> "\n"])
OtherFile == "out.tfstate"
FileNames == {DefaultStateFile, OtherFile}

(***************************************************************************)
(* The process                                                             *)
(***************************************************************************)
VARIABLES
    runs,        \* the runs of import that ended before this one: what each located and wrote
    mode,        \* os.Args[1]: "show", "diff" or "import"
    opts,        \* the parsed command line
    fs,          \* the files on disk: name -> Nil (no file) or Ptr(bytes)
    fs0,         \* the files on disk when the process started (history)
    pc,          \* where the process is
    tfstate,     \* the terraform.State in memory
    inputBytes,  \* the bytes readTfState returned: Nil before, Ptr(bytes) after
    located,     \* the module index at which the scan of inject stopped, or 0
    printed,     \* what was printed, in order: [fd, ...]
    writes,      \* the names of the files WriteFile opened for writing, in order
    writeErr,    \* the err WriteFile returned ("" is nil, also before the call)
    exitStatus   \* the exit status once pc = "exit", -1 before

vars == <<runs, mode, opts, fs, fs0, pc, tfstate, inputBytes, located, printed, writes, writeErr,
          exitStatus>>

NoOpts == [i |-> "", o |-> "", c |-> "", inst_name |-> "", vol_name |-> "", att_name |-> "",
           dev |-> <<>>, inst_id |-> <<>>, vol_id |-> <<>>]
Devs == {DevSdg, DevSdh}
ShowIDs == {InstID(1), InstID(2), VolID(1), VolID(2)}
ColourModes == {"auto", "no", "yes"}

ShowCommands ==
    {[NoOpts EXCEPT !.inst_id = ii, !.vol_name = vn, !.vol_id = vi, !.att_name = an, !.dev = d] :
        ii \in ShowIDs, vn \in VolNames, vi \in ShowIDs, an \in AttNames, d \in Devs}
DiffCommands ==
    {[NoOpts EXCEPT !.c = c, !.inst_name = n, !.vol_name = vn, !.att_name = an, !.dev = DevSdg] :
        c \in ColourModes, n \in InstNames, vn \in VolNames, an \in AttNames}
ImportCommands ==
    {[NoOpts EXCEPT !.o = o, !.inst_name = n, !.vol_name = vn, !.att_name = an, !.dev = DevSdg] :
        o \in {"", OtherFile}, n \in InstNames, vn \in VolNames, an \in AttNames}

Init ==
    /\ runs = <<>>
    /\ mode \in {"show", "diff", "import"}
    /\ opts \in CASE mode = "show" -> ShowCommands
                  [] mode = "diff" -> DiffCommands
                  [] OTHER -> ImportCommands
    /\ \E f \in (IF mode = "show" THEN {Nil}
                 ELSE InputFiles(opts.inst_name, opts.vol_name, opts.att_name)) :
         fs = [n \in FileNames |-> IF n = InputFileName(opts.i) THEN f ELSE PreviousOutput]
    /\ fs0 = fs
    /\ pc = "main"
    /\ tfstate = [Modules |-> Nil]
    /\ inputBytes = Nil
    /\ located = 0
    /\ printed = <<>>
    /\ writes = <<>>
    /\ writeErr = ""
    /\ exitStatus = -1

\* os.Exit(status) after printing `line`, or the return from main (status 0)
Exit(line, status) ==
    /\ printed' = Append(printed, line)
    /\ exitStatus' = status
    /\ pc' = "exit"

\* What follows injectVolumeAttachment: importMode line 164, diffMode line 113
AfterInject_write(m) == "writeTfState"
AfterInject(m) == IF m = "import" THEN "writeTfState" ELSE "diffOutput"

\* showMode (lines 88-105)
ShowOutput(o) ==
    [ks \in {"aws_volume_attachment." \o o.att_name} |->
        newAwsVolumeAttachmentState(o.inst_id, o.vol_name, o.vol_id, o.dev)]
MarshalShow(result) == JMap([km \in DOMAIN result |-> MarshalResourceState(result[km])])
ShowMode ==
    /\ pc = "main" /\ mode = "show"
    /\ Exit([fd |-> 1, json |-> MarshalShow(ShowOutput(opts)), trailer |-> "\n"], 0)
    /\ UNCHANGED <<runs, mode, opts, fs, fs0, tfstate, inputBytes, located, writes, writeErr>>

\* readTfState (lines 168-189), called first by diffMode and importMode
ReadTfState ==
    /\ pc = "main" /\ mode \in {"diff", "import"}
    /\ LET r == ReadFile(fs, InputFileName(opts.i))
       IN  IF r.err # ""
           THEN /\ Exit(die("Error reading input file: ", r.err), DieStatus)
                /\ UNCHANGED <<tfstate, inputBytes>>
           ELSE LET u == Unmarshal(r.data)
                IN  IF u.err # ""
                    THEN /\ Exit(die("Error parsing input file as JSON: ", u.err), DieStatus)
                         /\ UNCHANGED <<tfstate, inputBytes>>
                    ELSE /\ tfstate' = u.v
                         /\ inputBytes' = Ptr(r.data)
                         /\ pc' = "inject"
                         /\ UNCHANGED <<printed, exitStatus>>
    /\ UNCHANGED <<runs, mode, opts, fs, fs0, located, writes, writeErr>>

\* injectVolumeAttachment (lines 213-237)
InjectVolumeAttachment ==
    /\ pc = "inject"
    /\ LET r == injectVolumeAttachment(opts, tfstate)
       IN  /\ located' = r.index
           /\ CASE r.outcome = "return" ->
                     /\ tfstate' = r.tfstate
                     /\ pc' = AfterInject(mode)
                     /\ UNCHANGED <<printed, exitStatus>>
                [] r.outcome = "die" ->
                     /\ Exit(die(r.message, ""), DieStatus)
                     /\ UNCHANGED tfstate
                [] OTHER ->
                     /\ Exit(NilDereference, PanicStatus)
                     /\ UNCHANGED tfstate
    /\ UNCHANGED <<runs, mode, opts, fs, fs0, inputBytes, writes, writeErr>>

\* writeTfState (lines 192-210), the last step of importMode
WriteTfState ==
    /\ pc = "writeTfState"
    /\ \E how \in WriteOutcomes :
         LET outputData == AppendNewline(MarshalIndent(tfstate))
             name == OutputFileName(opts.o)
             w == WriteFile(fs, name, outputData, how)
         IN  /\ fs' = w.files
             /\ writes' = IF how = "open fails" THEN writes ELSE Append(writes, name)
             /\ writeErr' = w.err
             /\ IF w.err # ""
                THEN Exit(die("Error writing output file: ", w.err), DieStatus)
                ELSE /\ pc' = "exit"
                     /\ exitStatus' = 0
                     /\ UNCHANGED printed
    /\ UNCHANGED <<runs, mode, opts, fs0, tfstate, inputBytes, located>>

\* diffMode after the injection (lines 113-152)
Colours(cArg, isTerminal) ==
    IF cArg \in {"", "auto"} THEN isTerminal ELSE cArg = "yes"
\* outputBytes of diffMode (line 113): the state after the injection, serialized
AfterDocument_empty(state) == MarshalIndent([state EXCEPT !.Modules = Nil])
AfterDocument(state) == MarshalIndent(state)
DiffOutput ==
    /\ pc = "diffOutput"
    /\ \E isTerminal \in BOOLEAN :
         LET outputBytes == AfterDocument(tfstate)
             diff == Compare(Deref(inputBytes), outputBytes)
         IN  Exit([fd |-> 1, diff |-> diff, colours |-> Colours(opts.c, isTerminal)], 0)
    /\ UNCHANGED <<runs, mode, opts, fs, fs0, tfstate, inputBytes, located, writes, writeErr>>

Next ==
    \/ ShowMode
    \/ ReadTfState
    \/ InjectVolumeAttachment
    \/ WriteTfState
    \/ DiffOutput

Spec == Init /\ [][Next]_vars

\* A run of import that ended with status zero is followed by a run of the
\* same command line that reads what it wrote ("-i" naming the file of "-o"):
\* a new process (main, line 62) that finds the files as the run left them.
Rerun ==
    /\ mode = "import" /\ pc = "exit" /\ exitStatus = 0
    /\ Len(runs) + 1 < MaxRuns
    /\ runs' = Append(runs, [located |-> located,
                             document |-> fs[OutputFileName(opts.o)]])
    /\ opts' = [opts EXCEPT !.i = opts.o]
    /\ fs0' = fs
    /\ pc' = "main"
    /\ tfstate' = [Modules |-> Nil]
    /\ inputBytes' = Nil
    /\ located' = 0
    /\ printed' = <<>>
    /\ writes' = <<>>
    /\ writeErr' = ""
    /\ exitStatus' = -1
    /\ UNCHANGED <<mode, fs>>

NextRerun ==
    \/ Next
    \/ Rerun

SpecRerun == Init /\ [][NextRerun]_vars

(***************************************************************************)
(* The input document as the file holds it, read off the JSON text and not *)
(* off the decoded state, and what the properties below say about it.      *)
(***************************************************************************)
InputFile == fs0[InputFileName(opts.i)]
InputMissing == IsNil(InputFile)
InputUnparseable == ~InputMissing /\ ~Deref(InputFile).valid
\* the modules of the input, <<>> when there is no "modules" array
InputModules ==
    IF InputMissing \/ InputUnparseable \/ Deref(InputFile).json.modules.t # "array"
    THEN <<>>
    ELSE Deref(InputFile).json.modules.v
InstanceKey == "aws_instance." \o opts.inst_name
VolumeKey == "aws_ebs_volume." \o opts.vol_name
AttachmentKey == "aws_volume_attachment." \o opts.att_name
JHasKey(jm, key) ==
    jm.t = "object" /\ jm.resources.t = "object" /\ key \in DOMAIN jm.resources.v
\* the keys of module n of the input
InputKeys(n) ==
    IF InputModules[n].t = "object" /\ InputModules[n].resources.t = "object"
    THEN DOMAIN InputModules[n].resources.v ELSE {}
\* the indexes of the modules that hold both keys, and the smallest of them
BothIdx == {n \in DOMAIN InputModules :
              JHasKey(InputModules[n], InstanceKey) /\ JHasKey(InputModules[n], VolumeKey)}
FirstBoth == CHOOSE n \in BothIdx : \A m \in BothIdx : n <= m
\* record `key` of module n of the input has a primary record
JHasPrimary(n, key) ==
    /\ InputModules[n].resources.v[key].t = "object"
    /\ InputModules[n].resources.v[key].primary.t = "object"
JPrimaryID(n, key) == InputModules[n].resources.v[key].primary.id

\* injectVolumeAttachment was called and is over
InjectRan == inputBytes # Nil /\ pc # "inject"
\* injectVolumeAttachment has returned (line 232) and nothing ran since
JustInjected == pc \in {"writeTfState", "diffOutput"}
\* the modules and the resources of the state in memory
StateModules == IF IsNil(tfstate.Modules) THEN <<>> ELSE Deref(tfstate.Modules)
StateKeys(n) ==
    IF IsNil(StateModules[n]) \/ IsNil(Deref(StateModules[n]).Resources) THEN {}
    ELSE DOMAIN Deref(Deref(StateModules[n]).Resources)
StateRecord(n, key) == Deref(Deref(StateModules[n]).Resources)[key]
\* the state json.Unmarshal made of the input, before the injection
ParsedModules ==
    LET ms == Unmarshal(Deref(inputBytes)).v.Modules
    IN  IF IsNil(ms) THEN <<>> ELSE Deref(ms)

\* module n of the state in memory holds, under the attachment key, a record
\* made of the primary identifiers of the instance and the volume of module n
\* of the input
UsesIdentifiersOf(n) ==
    /\ n \in DOMAIN StateModules
    /\ AttachmentKey \in StateKeys(n)
    /\ JHasPrimary(n, InstanceKey) /\ JHasPrimary(n, VolumeKey)
    /\ ~IsNil(StateRecord(n, AttachmentKey))
    /\ LET a == Deref(Deref(StateRecord(n, AttachmentKey)).Primary).Attributes
       IN  /\ a.instance_id = JPrimaryID(n, InstanceKey)
           /\ a.volume_id = JPrimaryID(n, VolumeKey)

(***************************************************************************)
(* C1.  For every input document: when some module holds both the instance *)
(* key and the volume key, the scan of injectVolumeAttachment stops at the *)
(* first such module in document order, and the record it inserts there    *)
(* carries the primary identifiers of the two records of that module.      *)
(* This is the claim as stated; it fails when a null module comes before   *)
(* the first module with both keys, or when one of the two records has no  *)
(* primary record: the scan then ends in a nil dereference.                *)
(***************************************************************************)
C1_LocateSelectsFirstModuleWithBoth ==
    (InjectRan /\ BothIdx # {}) =>
        /\ located = FirstBoth
        /\ exitStatus # PanicStatus
        /\ UsesIdentifiersOf(FirstBoth)

(***************************************************************************)
(* C2.  For every input document in which no module holds both keys, the   *)
(* scan ends in die with the message that names both resource keys, and    *)
(* the state in memory is the decoded input, with no record inserted.      *)
(* This is the claim as stated; it fails on a document with a null module, *)
(* where the scan ends in a nil dereference instead.                       *)
(***************************************************************************)
C2_NotFoundWhenNoModuleHasBoth ==
    (InjectRan /\ BothIdx = {}) =>
        /\ pc = "exit"
        /\ exitStatus = DieStatus
        /\ printed = <<[fd |-> 1,
                        text |-> "Could not locate module in tfstate containing (\""
                                 \o InstanceKey \o "\", \"" \o VolumeKey \o "\")\n"]>>
        /\ StateModules = ParsedModules
        /\ fs = fs0

(***************************************************************************)
(* C3.  After injectVolumeAttachment has returned, the state in memory has *)
(* as many modules as the decoded input, in the same order, and every      *)
(* module but the located one is the module the decoding produced: same    *)
(* path, same resource keys, same record under each key.                   *)
(***************************************************************************)
C3_OtherModulesUnchanged ==
    JustInjected =>
        /\ Len(StateModules) = Len(ParsedModules)
        /\ located \in DOMAIN StateModules
        /\ \A n \in (DOMAIN StateModules) \ {located} :
              /\ StateModules[n] = ParsedModules[n]
              /\ StateKeys(n) = InputKeys(n)
C3_Witness ==
    /\ JustInjected
    /\ located = 2
    /\ InstanceKey \in StateKeys(1)
    /\ AttachmentKey \notin StateKeys(1)

(***************************************************************************)
(* C4.  The document a successful import has written, compared with the    *)
(* input document, in the located module.                                  *)
(***************************************************************************)
ImportSucceeded == mode = "import" /\ pc = "exit" /\ exitStatus = 0
OutputModules == Deref(fs[OutputFileName(opts.o)]).json.modules.v
OutputKeys(n) == DOMAIN OutputModules[n].resources.v

\* C4 as stated: for every input on which the locate step succeeds, the
\* located module of the output has the keys of the input plus exactly one
\* new key, the attachment key, and every record of the input is unchanged.
C4_ExactlyOneNewKey ==
    ImportSucceeded =>
        /\ AttachmentKey \notin InputKeys(located)
        /\ OutputKeys(located) = InputKeys(located) \cup {AttachmentKey}
        /\ \A k \in InputKeys(located) :
              OutputModules[located].resources.v[k] = InputModules[located].resources.v[k]

\* C4 as amended: the located module of the output has the keys of the input
\* together with the attachment key (one new key when the input module did
\* not hold it, none when it did); every record of the input under another
\* key is unchanged; the record under the attachment key is the synthesized
\* one, which replaces a record the input held under that key.
C4_KeysOfInputAndAttachment ==
    ImportSucceeded =>
        /\ OutputKeys(located) = InputKeys(located) \cup {AttachmentKey}
        /\ Cardinality(OutputKeys(located) \ InputKeys(located))
             = (IF AttachmentKey \in InputKeys(located) THEN 0 ELSE 1)
        /\ \A k \in InputKeys(located) \ {AttachmentKey} :
              OutputModules[located].resources.v[k] = InputModules[located].resources.v[k]
        /\ OutputModules[located].resources.v[AttachmentKey]
             = MarshalResourceState(StateRecord(located, AttachmentKey))
        /\ UsesIdentifiersOf(located)
C4_Witness ==
    /\ ImportSucceeded
    /\ InputKeys(located) = {InstanceKey, VolumeKey}
    /\ OutputKeys(located) = {InstanceKey, VolumeKey, AttachmentKey}

(***************************************************************************)
(* C5.  In import mode a file is written at most once, and only by         *)
(* writeTfState: after the input was read and parsed, the module located,  *)
(* the record synthesized and the whole document serialized.  A run that   *)
(* ends in a failure before writeTfState has written nothing, and the      *)
(* files are those the process started with.  A write that succeeds leaves *)
(* the whole updated document in the output file and no other file changed.*)
(***************************************************************************)
C5_WriteOnceAfterAllSucceeded ==
    /\ Len(writes) <= 1
    /\ fs # fs0 => writes # <<>>
    /\ writes # <<>> =>
          /\ mode = "import" /\ pc = "exit"
          /\ ~InputMissing /\ ~InputUnparseable
          /\ BothIdx # {} /\ located = FirstBoth /\ UsesIdentifiersOf(FirstBoth)
          /\ writes = <<OutputFileName(opts.o)>>
          /\ \A n \in FileNames \ {OutputFileName(opts.o)} : fs[n] = fs0[n]
          /\ writeErr = "" =>
                fs[OutputFileName(opts.o)] = Ptr(AppendNewline(MarshalIndent(tfstate)))
    /\ (pc = "exit" /\ (InputMissing \/ InputUnparseable \/ BothIdx = {})) =>
          /\ writes = <<>>
          /\ fs = fs0
    /\ (pc = "exit" /\ exitStatus # 0 /\ writeErr = "") =>
          /\ writes = <<>>
          /\ fs = fs0
C5_Witness ==
    /\ ImportSucceeded
    /\ writes = <<DefaultStateFile>>
    /\ fs # fs0

(***************************************************************************)
(* C6.  In diff mode no file is ever written: at every point of the run,   *)
(* also when it fails, the files on disk are those the process started with.*)
(***************************************************************************)
C6_DiffWritesNothing ==
    mode = "diff" => (fs = fs0 /\ writes = <<>>)
C6_Witness ==
    /\ mode = "diff" /\ pc = "exit" /\ exitStatus = 0
    /\ printed[1].diff # {}
    /\ StateModules # ParsedModules

(***************************************************************************)
(* C7.  The record newAwsVolumeAttachmentState builds, as show prints it   *)
(* and as injectVolumeAttachment inserts it.                               *)
(***************************************************************************)
AttributeKeys == {"id", "device_name", "instance_id", "volume_id"}
\* j is the JSON form of a record synthesized from these four inputs
IsSynthesized(j, instanceID, volumeName, volumeID, deviceName) ==
    /\ j.t = "object"
    /\ j.type = "aws_volume_attachment"
    /\ j.depends_on.v = <<"aws_ebs_volume." \o volumeName>>
    /\ j.primary.t = "object"
    /\ DOMAIN j.primary.attributes.v = AttributeKeys
    /\ j.primary.attributes.v.id = j.primary.id
    /\ j.primary.attributes.v.device_name = deviceName
    /\ j.primary.attributes.v.instance_id = instanceID
    /\ j.primary.attributes.v.volume_id = volumeID
    /\ j.primary.meta.v = EmptyMap
    /\ j.primary.tainted = FALSE
ShowDone == mode = "show" /\ pc = "exit"
ShownRecord == printed[1].json.v[AttachmentKey]
InsertedRecord == MarshalResourceState(StateRecord(located, AttachmentKey))

\* C7: for all inputs the synthesized record has kind aws_volume_attachment,
\* the one dependency aws_ebs_volume.<volume name>, attributes with exactly
\* the keys id, device_name, instance_id, volume_id holding the identifier
\* and the three inputs, an empty metadata mapping and tainted = false.
C7_SynthesizedRecord ==
    /\ ShowDone =>
          /\ DOMAIN printed[1].json.v = {AttachmentKey}
          /\ IsSynthesized(ShownRecord, opts.inst_id, opts.vol_name, opts.vol_id, opts.dev)
    /\ JustInjected =>
          IsSynthesized(InsertedRecord, JPrimaryID(located, InstanceKey), opts.vol_name,
                        JPrimaryID(located, VolumeKey), opts.dev)
C7_Witness ==
    /\ ShowDone
    /\ opts.inst_id = InstID(1) /\ opts.vol_id = VolID(2) /\ opts.dev = DevSdh
    /\ ShownRecord.primary.attributes.v.instance_id = InstID(1)

(***************************************************************************)
(* C8.  The identifier of the synthesized record is "vai-" followed by the *)
(* decimal form of the hash of the device name, the instance identifier    *)
(* and the volume identifier, in this order, each followed by a hyphen: on *)
(* the show path and on the inject path.                                   *)
(***************************************************************************)
RawKey(deviceName, instanceID, volumeID) ==
    deviceName \o <<45>> \o instanceID \o <<45>> \o volumeID \o <<45>>
ExpectedID(deviceName, instanceID, volumeID) ==
    <<118, 97, 105, 45>>
        \o FormatDecimal(hashcode_String(RawKey(deviceName, instanceID, volumeID)))
C8_IdentifierOfRawKey ==
    /\ ShowDone =>
          ShownRecord.primary.id = ExpectedID(opts.dev, opts.inst_id, opts.vol_id)
    /\ JustInjected =>
          InsertedRecord.primary.id =
              ExpectedID(opts.dev, JPrimaryID(located, InstanceKey),
                         JPrimaryID(located, VolumeKey))
\* crc32 of "/dev/sdg-i-1-vol-1-" is 1891123936
C8_Witness ==
    /\ JustInjected
    /\ located = 1
    /\ InsertedRecord.primary.id = <<118, 97, 105, 45, 49, 56, 57, 49, 49, 50, 51, 57, 51, 54>>

(***************************************************************************)
(* C9.  The record import (or diff) inserts under the attachment key is    *)
(* the record show prints under that key when it is given the identifiers  *)
(* the locate step resolved, the same volume name, attachment name and     *)
(* device.                                                                 *)
(***************************************************************************)
ShowCommandFor(instanceID, volumeID) ==
    [opts EXCEPT !.inst_id = instanceID, !.vol_id = volumeID]
C9_ShowImportConsistency ==
    JustInjected =>
        LET shown == MarshalShow(ShowOutput(
                        ShowCommandFor(JPrimaryID(located, InstanceKey),
                                       JPrimaryID(located, VolumeKey))))
        IN  /\ DOMAIN shown.v = {AttachmentKey}
            /\ InsertedRecord = shown.v[AttachmentKey]
C9_Witness ==
    /\ mode = "import" /\ pc = "writeTfState"
    /\ located = 2
    /\ InsertedRecord.primary.attributes.v.instance_id = InstID(2)

(***************************************************************************)
(* C10.  A run of import or diff ends with a non-zero exit status, after   *)
(* printing a message, when the input cannot be read or parsed, when no    *)
(* module holds both keys (also for want of "modules" or "resources"),     *)
(* when the scan meets a null module or a located record without a primary *)
(* record, or when the output cannot be written; it ends with status zero  *)
(* in every other case.                                                    *)
(***************************************************************************)
\* the scan meets a null module: one that comes before any module with both
NullModuleMet ==
    \E n \in DOMAIN InputModules :
        /\ InputModules[n].t = "null"
        /\ \A m \in BothIdx : n < m
LocatedWithoutPrimary ==
    /\ BothIdx # {}
    /\ ~(JHasPrimary(FirstBoth, InstanceKey) /\ JHasPrimary(FirstBoth, VolumeKey))
MeetsFailure ==
    \/ InputMissing
    \/ InputUnparseable
    \/ BothIdx = {}
    \/ NullModuleMet
    \/ LocatedWithoutPrimary
    \/ writeErr # ""
C10_ExitStatus ==
    (mode \in {"import", "diff"} /\ pc = "exit") =>
        /\ MeetsFailure =>
              /\ exitStatus # 0
              /\ printed # <<>>
              /\ "text" \in DOMAIN printed[Len(printed)]
        /\ ~MeetsFailure => exitStatus = 0
C10_Witness ==
    /\ pc = "exit"
    /\ LocatedWithoutPrimary /\ ~NullModuleMet
    /\ located = FirstBoth
    /\ exitStatus = PanicStatus

(***************************************************************************)
(* C11.  importMode (lines 156-165) as a function of the command line and  *)
(* the files: the exit status, what is printed, and the document handed to *)
(* ioutil.WriteFile (nil when the run fails before writeTfState).          *)
(***************************************************************************)
importMode(o, files) ==
    LET r == ReadFile(files, InputFileName(o.i))
    IN  IF r.err # ""
        THEN [status |-> DieStatus, document |-> Nil,
              printed |-> <<die("Error reading input file: ", r.err)>>]
        ELSE LET u == Unmarshal(r.data)
             IN  IF u.err # ""
                 THEN [status |-> DieStatus, document |-> Nil,
                       printed |-> <<die("Error parsing input file as JSON: ", u.err)>>]
                 ELSE LET inj == injectVolumeAttachment(o, u.v)
                      IN  CASE inj.outcome = "return" ->
                                 [status |-> 0, printed |-> <<>>,
                                  document |-> Ptr(AppendNewline(MarshalIndent(inj.tfstate)))]
                            [] inj.outcome = "die" ->
                                 [status |-> DieStatus, document |-> Nil,
                                  printed |-> <<die(inj.message, "")>>]
                            [] OTHER ->
                                 [status |-> PanicStatus, document |-> Nil,
                                  printed |-> <<NilDereference>>]
\* the places where document `after` differs from the input document
ChangesTo(after) == Compare(Deref(InputFile), after)

\* C11: for the same input document and the same instance name, volume name,
\* attachment name and device, a run of import whose write succeeds leaves
\* in the output file the document importMode hands to WriteFile, and a run
\* of diff prints the differences between the input document and that same
\* document (the trailing newline import appends is not part of the JSON
\* document); when the run fails before that, diff prints no diff and ends
\* with the exit status and the message import ends with.
C11_DiffComparesImportDocument ==
    LET w == importMode(opts, fs0)
    IN  /\ (mode = "import" /\ pc = "exit" /\ writeErr = "") =>
              /\ exitStatus = w.status
              /\ exitStatus = 0 => fs[OutputFileName(opts.o)] = w.document
              /\ exitStatus # 0 => printed = w.printed
        /\ (mode = "diff" /\ pc = "exit") =>
              /\ exitStatus = w.status
              /\ exitStatus = 0 =>
                    /\ Len(printed) = 1
                    /\ printed[1].diff = ChangesTo(Deref(w.document))
                    /\ AfterDocument(tfstate).json = Deref(w.document).json
              /\ exitStatus # 0 =>
                    /\ printed = w.printed
                    /\ \A n \in DOMAIN printed : "diff" \notin DOMAIN printed[n]
C11_Witness ==
    /\ mode = "diff" /\ pc = "exit" /\ exitStatus = 0
    /\ located = 2
    /\ <<2, AttachmentKey, "added">> \in printed[1].diff
    /\ printed[1].diff = ChangesTo(Deref(importMode(opts, fs0).document))

(***************************************************************************)
(* C12.  Import run again on what it wrote.                                *)
(***************************************************************************)
PreviousRun == runs[Len(runs)]
\* the input holds a record under the attachment key where the scan stops,
\* and the two records located there have their primary records
AttachmentHeld ==
    /\ BothIdx # {} /\ ~NullModuleMet /\ ~LocatedWithoutPrimary
    /\ AttachmentKey \in InputKeys(FirstBoth)

\* C12: a run of import with the same arguments that reads the document the
\* run before it wrote locates the same module, reports no failure (unless
\* the file cannot be written), inserts under the attachment key a record
\* equal to the one that is there, adds no key, and writes the document the
\* run before it wrote.  More generally, on every input in which the located
\* module holds a record under the attachment key, import reports no
\* failure and the output holds the synthesized record under that key.
C12_ImportIdempotent ==
    /\ (runs # <<>> /\ JustInjected) =>
          /\ located = PreviousRun.located
          /\ StateKeys(located) = InputKeys(located)
          /\ InsertedRecord = InputModules[located].resources.v[AttachmentKey]
    /\ (runs # <<>> /\ pc = "exit") =>
          /\ located = PreviousRun.located
          /\ exitStatus # 0 => writeErr # ""
          /\ writeErr = "" =>
                /\ exitStatus = 0 /\ printed = <<>>
                /\ fs[OutputFileName(opts.o)] = PreviousRun.document
                /\ OutputKeys(located) = InputKeys(located)
    /\ (mode = "import" /\ pc = "exit" /\ AttachmentHeld /\ writeErr = "") =>
          /\ exitStatus = 0 /\ printed = <<>>
          /\ OutputKeys(located) = InputKeys(located)
          /\ IsSynthesized(OutputModules[located].resources.v[AttachmentKey],
                           JPrimaryID(located, InstanceKey), opts.vol_name,
                           JPrimaryID(located, VolumeKey), opts.dev)
C12_Witness ==
    /\ Len(runs) = 1 /\ pc = "exit" /\ exitStatus = 0
    /\ located = 2 /\ PreviousRun.located = 2
    /\ writes = <<OutputFileName(opts.o)>>
    /\ fs[OutputFileName(opts.o)] = PreviousRun.document
    /\ AttachmentKey \in InputKeys(2)

=============================================================================
